---- MODULE Spec2Model ----
(***************************************************************************)
(* ResumeFlowBot: the chat handlers of bot.py (start, collect_text,        *)
(* clear_input, generate_resume), the per-user session store, and the pure *)
(* helpers extract_json and wrap_markdown_code_block.                      *)
(*                                                                         *)
(* Strings are kept in run-length form: a sequence of runs [c, n] (the     *)
(* character c repeated n >= 1 times) in which neighbouring runs have      *)
(* different characters.  The form is canonical, so string equality is     *)
(* equality of the sequences, and a 4000-character text stays small.       *)
(***************************************************************************)
EXTENDS Integers, Sequences, FiniteSets, TLC

\* ------------------------------------------------------------------ bounds

\* Input messages a user may have pending (sent and not yet cleared), summed
\* over all users.
MaxInputs == 2

\* Longest raw model output given to extract_json in SpecExtract.
MaxRawLen == 5

\* Invocations of the polling cycle counted in run_bot.polls (the count stays
\* at the bound; the loop itself goes on).
MaxPolls == 3

\* Invocations of collect_text and clear_input that run during one
\* generation request of the same user (SpecInterleaved).
MaxOverlap == 2

\* --------------------------------------------------------------- constants

TELEGRAM_MESSAGE_LIMIT == 4000

Users == {"u1", "u2"}

\* ----------------------------------------------------------------- strings

Run(c, n) == [c |-> c, n |-> n]

EmptyStr == << >>

RECURSIVE StrLen(_)
\* len(s)
StrLen(s) == IF s = << >> THEN 0 ELSE Head(s).n + StrLen(Tail(s))

\* s + t, keeping the run-length form canonical
Concat(s, t) ==
    IF s = << >> THEN t
    ELSE IF t = << >> THEN s
    ELSE IF s[Len(s)].c = t[1].c
         THEN SubSeq(s, 1, Len(s) - 1)
              \o << Run(t[1].c, s[Len(s)].n + t[1].n) >>
              \o Tail(t)
         ELSE s \o t

RECURSIVE Lit(_)
\* the string made of the given characters
Lit(chars) ==
    IF chars = << >> THEN EmptyStr
    ELSE Concat(<< Run(Head(chars), 1) >>, Lit(Tail(chars)))

\* str.isspace() for one character
IsSpace(c) == c \in {" ", "\n", "\t"}

RECURSIVE lstrip(_)
lstrip(s) ==
    IF s = << >> THEN s
    ELSE IF IsSpace(Head(s).c) THEN lstrip(Tail(s)) ELSE s

RECURSIVE rstrip(_)
rstrip(s) ==
    IF s = << >> THEN s
    ELSE IF IsSpace(s[Len(s)].c) THEN rstrip(SubSeq(s, 1, Len(s) - 1)) ELSE s

\* strip that trims nothing
strip_Identity(s) == s

\* str.strip()
strip(s) == rstrip(lstrip(s))

\* the backquote character (written by name: the character itself cannot
\* appear in a module)
BACKQUOTE == "BQ"

\* whether s contains three consecutive backquotes
HasTripleBackquote(s) == \E i \in 1..Len(s) : s[i].c = BACKQUOTE /\ s[i].n >= 3

RECURSIVE JoinBlankLine(_)
\* "\n\n".join(texts)
JoinBlankLine(texts) ==
    IF texts = << >> THEN EmptyStr
    ELSE IF Len(texts) = 1 THEN texts[1]
    ELSE Concat(Concat(texts[1], << Run("\n", 2) >>), JoinBlankLine(Tail(texts)))

\* ------------------------------------------------- markdown message layout

\* "```markdown\n": three backquotes, the eight letters, one newline
FenceOpen == << Run(BACKQUOTE, 3), Run("markdown", 8), Run("\n", 1) >>

\* "\n```"
FenceClose == << Run("\n", 1), Run(BACKQUOTE, 3) >>

\* the 26 characters before the blank line of the header, then "\n\n"
MarkdownHeader == << Run("header", 26), Run("\n", 2) >>

\* wrap that fences every text
wrap_AlwaysFence(md) == Concat(Concat(FenceOpen, md), FenceClose)

\* wrap_markdown_code_block(md): "" when md holds three backquotes in a row
wrap_markdown_code_block(md) ==
    IF HasTripleBackquote(md) THEN EmptyStr
    ELSE Concat(Concat(FenceOpen, md), FenceClose)

\* f"<header>\n\n{code_block}"
MarkdownMessageText(code_block) == Concat(MarkdownHeader, code_block)

\* the branch test with >= for >
SendMarkdownAsFile_AtLimit(resume_markdown) ==
    LET code_block == wrap_markdown_code_block(resume_markdown)
    IN  code_block = EmptyStr
        \/ StrLen(MarkdownMessageText(code_block)) >= TELEGRAM_MESSAGE_LIMIT

\* the test of the markdown delivery branch: TRUE sends resume.md
SendMarkdownAsFile(resume_markdown) ==
    LET code_block == wrap_markdown_code_block(resume_markdown)
    IN  code_block = EmptyStr
        \/ StrLen(MarkdownMessageText(code_block)) > TELEGRAM_MESSAGE_LIMIT

\* ------------------------------------------------------------ extract_json
\* The raw model output is a flat sequence of characters over JsonChars:
\* the two braces, the comma, "v" (the text of one complete member with a
\* scalar value), "K" (the text of a key and its colon, to be followed by an
\* object), " " (white space) and "n" (any other text).

JsonChars == {"{", "}", ",", "v", "K", " ", "n"}

\* str.find(c): 0-based index of the first c, -1 when there is none
Find(text, c) ==
    IF \E i \in 1..Len(text) : text[i] = c
    THEN (CHOOSE i \in 1..Len(text) :
              text[i] = c /\ \A j \in 1..(i - 1) : text[j] # c) - 1
    ELSE -1

\* rfind that returns the first occurrence
RFind_First(text, c) ==
    IF \E i \in 1..Len(text) : text[i] = c
    THEN (CHOOSE i \in 1..Len(text) :
              text[i] = c /\ \A j \in 1..(i - 1) : text[j] # c) - 1
    ELSE -1

\* str.rfind(c): 0-based index of the last c, -1 when there is none
RFind(text, c) ==
    IF \E i \in 1..Len(text) : text[i] = c
    THEN (CHOOSE i \in 1..Len(text) :
              text[i] = c /\ \A j \in (i + 1)..Len(text) : text[j] # c) - 1
    ELSE -1

\* text[a:b] for 0 <= a <= b <= len(text)
Slice(text, a, b) == SubSeq(text, a + 1, b)

\* the text without its white space (white space between JSON tokens is
\* insignificant)
SkipWs(text) == SelectSeq(text, LAMBDA c : c # " ")

RECURSIVE ObjectEnd(_, _)
RECURSIVE MembersEnd(_, _)
\* The position after the JSON object that starts at t[i], 0 when none does.
ObjectEnd(t, i) ==
    IF i > Len(t) \/ t[i] # "{" THEN 0
    ELSE IF i + 1 <= Len(t) /\ t[i + 1] = "}" THEN i + 2
    ELSE MembersEnd(t, i + 1)

\* The position after the "}" closing the member list that starts at t[i].
MembersEnd(t, i) ==
    LET m == IF i > Len(t) THEN 0
             ELSE IF t[i] = "v" THEN i + 1
             ELSE IF t[i] = "K" THEN ObjectEnd(t, i + 1)
             ELSE 0
    IN  IF m = 0 \/ m > Len(t) THEN 0
        ELSE IF t[m] = "}" THEN m + 1
        ELSE IF t[m] = "," THEN MembersEnd(t, m + 1)
        ELSE 0

\* json.loads(s) for a text s: the decoded object (its tokens, white space
\* gone) or a JSONDecodeError
json_loads(s) ==
    LET t == SkipWs(s)
    IN  IF t # << >> /\ ObjectEnd(t, 1) = Len(t) + 1
        THEN [kind |-> "ok", value |-> t]
        ELSE [kind |-> "JSONDecodeError", value |-> << >>]

\* the slice extract_json hands to json.loads
JsonSlice(text) == Slice(text, Find(text, "{"), RFind(text, "}") + 1)

\* extract_json(text): the decoded object, ValueError("No JSON object found
\* in model output"), or the JSONDecodeError of json.loads
extract_json(text) ==
    LET start == Find(text, "{")
        end   == RFind(text, "}")
    IN  IF start = -1 \/ end = -1 \/ end <= start
        THEN [kind |-> "ValueError", value |-> << >>]
        ELSE json_loads(JsonSlice(text))

\* ------------------------------------------------------------------- state

VARIABLES
    user_sessions,  \* user id -> the list user_sessions[user_id]["texts"]
    session_keys,   \* the user ids the defaultdict holds an entry for
    inputs,         \* per user: the input messages sent since the last clear
                    \* or prompt (history, not program state)
    call,           \* the handler invocation running now, or the last one
    pc,             \* position of generate_resume, "idle" outside it
    loc,            \* local variables of generate_resume
    status,         \* what the status message of the request shows
    trace,          \* calls made by the current (or last) handler invocation,
                    \* in order, each with whether it returned (ok) or raised
    run_bot         \* the supervisor loop of run_bot: its position, the
                    \* exception it saw last, the seconds it has slept
                    \* since, and the polling cycles started so far (history)

vars == << user_sessions, session_keys, inputs, call, pc, loc, status, trace,
           run_bot >>

\* The captions of the two reply-keyboard buttons (lines 154-155: a mark, a
\* space, the words) and the start command, as message texts.
GenerateCaption == Lit(<< "[v]", " ", "generate" >>)
ClearCaption    == Lit(<< "[x]", " ", "clear" >>)
StartCommand    == Lit(<< "/", "start" >>)

\* commands=["start"]: the first word of the text, up to an "@", is /start
\* (the command alone, with arguments, or addressed to a bot by name)
IsStartCommand(text) ==
    /\ Len(text) >= 2
    /\ SubSeq(text, 1, 2) = StartCommand
    /\ Len(text) > 2 => (IsSpace(text[3].c) \/ text[3].c = "@")

\* a collect filter that accepts every text
CollectFilter_Any(text) == TRUE

\* line 174: func=lambda m: m.text not in [the two captions]
CollectFilter(text) == text \notin {GenerateCaption, ClearCaption}

\* the handlers in the order the decorators register them
HandlerOrder == << "start", "collect_text", "clear_input", "generate_resume" >>

\* the filter of each handler (lines 161, 174, 197, 218)
Accepts(h, text) ==
    CASE h = "start"           -> IsStartCommand(text)
      [] h = "collect_text"    -> CollectFilter(text)
      [] h = "clear_input"     -> text = ClearCaption
      [] h = "generate_resume" -> text = GenerateCaption

\* The handler telebot runs for a text message: the first registered handler
\* whose filter accepts it, and no other.
HandlerFor(text) ==
    LET accepting == { i \in 1..Len(HandlerOrder) : Accepts(HandlerOrder[i], text) }
    IN  IF accepting = {} THEN "none"
        ELSE HandlerOrder[CHOOSE i \in accepting : \A j \in accepting : i <= j]

NoLocals ==
    [ full_text       |-> EmptyStr,
      prompt          |-> << >>,
      raw             |-> << >>,
      resume_markdown |-> EmptyStr,
      cover_letter    |-> EmptyStr,
      full_name       |-> << >>,
      decoded         |-> << >>,
      pdf_call        |-> << >>,
      pdf_filename    |-> << >>,
      parsed          |-> FALSE,
      exc             |-> "none",
      reraise         |-> FALSE ]

\* An invocation: the handler, the message, how it ended; and, as history of
\* a generation request, the fragments its prompt was built from and the
\* invocations of other handlers for the same user that ran during it.
NoCall == [ handler |-> "none", user |-> "u1", text |-> EmptyStr,
            had_texts |-> FALSE, state |-> "returned",
            snapshot |-> << >>, during |-> << >> ]

NewCall(h, u, text) ==
    [ handler |-> h, user |-> u, text |-> text,
      had_texts |-> FALSE, state |-> "running",
      snapshot |-> << >>, during |-> << >> ]

Event(op, ok) == [ op |-> op, ok |-> ok ]

\* how a handler invocation ends when its last call returned (ok) or raised
EndState(ok) == IF ok THEN "returned" ELSE "raised"

\* the number of input messages pending over all users
RECURSIVE Pending(_, _)
Pending(f, S) ==
    IF S = {} THEN 0
    ELSE LET u == CHOOSE x \in S : TRUE IN Len(f[u]) + Pending(f, S \ {u})

\* run_bot inside its first call of bot.infinity_polling
Supervising == [ pc |-> "polling", exc |-> "none", slept |-> 0, polls |-> 1 ]

\* updates are dispatched to the handlers from inside the polling cycle
Polling == run_bot.pc = "polling"

Init ==
    /\ user_sessions = [u \in Users |-> << >>]
    /\ session_keys = {}
    /\ inputs = [u \in Users |-> << >>]
    /\ call = NoCall
    /\ pc = "idle"
    /\ loc = NoLocals
    /\ status = "none"
    /\ trace = << >>
    /\ run_bot = Supervising

\* -------------------------------------------------- start, collect, clear

\* start(message): one welcome message with the keyboard
Start(u, text, ok) ==
    /\ pc = "idle"
    /\ Polling
    /\ UNCHANGED run_bot
    /\ HandlerFor(text) = "start"
    /\ call' = [NewCall("start", u, text) EXCEPT !.state = EndState(ok)]
    /\ trace' = << Event("send:welcome", ok) >>
    /\ UNCHANGED << user_sessions, session_keys, inputs, pc, loc, status >>

\* append that puts the text first
AppendText_Front(texts, text) == << text >> \o texts

\* user_sessions[user_id]["texts"].append(text)
AppendText(texts, text) == Append(texts, text)

\* collect_text(message)
CollectText(u, msg_text, ok) ==
    /\ pc = "idle"
    /\ Polling
    /\ UNCHANGED run_bot
    /\ HandlerFor(msg_text) = "collect_text"
    /\ Pending(inputs, Users) < MaxInputs
    /\ inputs' = [inputs EXCEPT ![u] = Append(@, msg_text)]
    /\ LET text == strip(msg_text)
       IN  IF text = EmptyStr
           THEN /\ call' = [NewCall("collect_text", u, msg_text)
                               EXCEPT !.state = "returned"]
                /\ trace' = << >>
                /\ UNCHANGED << user_sessions, session_keys >>
           ELSE /\ user_sessions' =
                       [user_sessions EXCEPT ![u] = AppendText(@, text)]
                /\ session_keys' = session_keys \cup {u}
                /\ call' = [NewCall("collect_text", u, msg_text)
                               EXCEPT !.state = EndState(ok)]
                /\ trace' = << Event("send:text_added", ok) >>
    /\ UNCHANGED << pc, loc, status >>

\* user_sessions[user_id]["texts"].clear()
ClearTexts(texts) == << >>

\* clear_input(message)
ClearInput(u, text, ok) ==
    /\ pc = "idle"
    /\ Polling
    /\ UNCHANGED run_bot
    /\ HandlerFor(text) = "clear_input"
    /\ user_sessions' = [user_sessions EXCEPT ![u] = ClearTexts(@)]
    /\ session_keys' = session_keys \cup {u}
    /\ inputs' = [inputs EXCEPT ![u] = << >>]
    /\ call' = [NewCall("clear_input", u, text) EXCEPT !.state = EndState(ok)]
    /\ trace' = << Event("send:cleared", ok) >>
    /\ UNCHANGED << pc, loc, status >>

\* ---------------------------------------------------------- generate_resume

\* payload.get(key) or "": None and "" both give ""
OrEmpty(opt) == IF opt = << >> THEN EmptyStr ELSE opt[1]

\* the truth value of resume_data.get("full_name")
Truthy(opt) == opt # << >> /\ opt[1] # EmptyStr

\* RESUME_JSON_PROMPT.replace("{user_text}", full_text): the instruction text
\* before the placeholder, the user text, the instruction text after it
BuildPrompt(full_text) == << Lit(<< "INPUT" >>), full_text, Lit(<< "GOAL" >>) >>

\* the user text a prompt carries
UserTextOf(prompt) == prompt[2]

\* leave the handler: the locals are gone
Leave(how) ==
    /\ pc' = "idle"
    /\ loc' = NoLocals
    /\ call' = [call EXCEPT !.state = how]

\* a step whose failure is swallowed
Outer_NoAbort(ok, next, l, exc) ==
    /\ pc' = next
    /\ loc' = l

\* a step that is tried again when it fails
Outer_Retry(ok, next, l, exc) ==
    /\ pc' = IF ok THEN next ELSE pc
    /\ loc' = IF ok THEN l ELSE loc

\* A step inside the outer try: with locals l on to `next`, or with the
\* exception exc into the except clause.
Outer(ok, next, l, exc) ==
    /\ pc' = IF ok THEN next ELSE "except"
    /\ loc' = IF ok THEN l ELSE [loc EXCEPT !.exc = exc]

\* the sub-flow with the status message deleted before the PDF is sent
PdfSteps_DeleteFirst ==
    << "edit_pdf", "load_fonts", "render_html", "html_to_pdf", "delete_status",
       "send_pdf", "finally" >>

\* lines 290-356: the statements of the inner try in the order written, and
\* where the handler goes after the last
PdfSteps ==
    << "edit_pdf", "load_fonts", "render_html", "html_to_pdf", "send_pdf",
       "delete_status", "finally" >>

\* the statement after `step` in the inner try
StepAfter(step) ==
    PdfSteps[(CHOOSE i \in 1..Len(PdfSteps) : PdfSteps[i] = step) + 1]

\* a step inside the inner try of the PDF sub-flow
Inner(ok, next, exc) ==
    /\ pc' = IF ok THEN next ELSE "pdf_failed"
    /\ loc' = IF ok THEN loc ELSE [loc EXCEPT !.exc = exc]

\* the emptiness test left out
NoTexts_Never(texts) == FALSE

\* line 226: "if not texts"
NoTexts(texts) == texts = << >>

\* lines 219-235: the emptiness test, the join, the status message
G_Start(u, text, ok) ==
    /\ pc = "idle"
    /\ Polling
    /\ UNCHANGED run_bot
    /\ HandlerFor(text) = "generate_resume"
    /\ session_keys' = session_keys \cup {u}
    /\ LET texts == user_sessions[u]
       IN  IF NoTexts(texts)
           THEN /\ trace' = << Event("send:no_data", ok) >>
                /\ call' = [NewCall("generate_resume", u, text)
                               EXCEPT !.state = EndState(ok)]
                /\ UNCHANGED << pc, loc, status >>
           ELSE /\ trace' = << Event("send:status", ok) >>
                /\ IF ok
                   THEN /\ call' = [NewCall("generate_resume", u, text)
                                       EXCEPT !.had_texts = TRUE,
                                              !.snapshot = texts]
                        /\ loc' = [NoLocals EXCEPT
                                      !.full_text = JoinBlankLine(texts)]
                        /\ pc' = "build_prompt"
                        /\ status' = "analyzing"
                   ELSE \* the send raises outside the try statement
                        /\ call' = [NewCall("generate_resume", u, text)
                                       EXCEPT !.had_texts = TRUE,
                                              !.state = "raised"]
                        /\ status' = "none"
                        /\ UNCHANGED << pc, loc >>
    /\ UNCHANGED << user_sessions, inputs >>

\* line 240
G_BuildPrompt ==
    /\ pc = "build_prompt"
    /\ UNCHANGED run_bot
    /\ loc' = [loc EXCEPT !.prompt = BuildPrompt(loc.full_text)]
    /\ pc' = "call_mistral"
    /\ UNCHANGED << user_sessions, session_keys, inputs, call, status, trace >>

\* lines 241-242: the provider call returns the raw text or raises
G_CallMistral(ok, raw) ==
    /\ pc = "call_mistral"
    /\ UNCHANGED run_bot
    /\ trace' = Append(trace, Event("call_mistral", ok))
    /\ inputs' = [inputs EXCEPT ![call.user] = << >>]
    /\ Outer(ok, "extract_json", [loc EXCEPT !.raw = raw], "ProviderError")
    /\ UNCHANGED << user_sessions, session_keys, call, status >>

\* lines 246-255: extract_json, then the three fields of the payload.  The
\* values the decoded object holds are those of `payload`; a payload whose
\* fields are not strings and objects makes lines 248-255 raise.
G_ExtractJson(payload) ==
    /\ pc = "extract_json"
    /\ UNCHANGED run_bot
    /\ LET res == extract_json(loc.raw)
           ok  == res.kind = "ok" /\ payload.well_typed
       IN  /\ trace' = Append(trace, Event("extract_json", res.kind = "ok"))
           /\ Outer(ok, "edit_sending",
                    [loc EXCEPT
                        !.decoded = res.value,
                        !.resume_markdown =
                            strip(OrEmpty(payload.resume_markdown)),
                        !.cover_letter = strip(OrEmpty(payload.cover_letter)),
                        !.full_name = payload.full_name,
                        !.parsed = TRUE],
                    IF res.kind = "ok" THEN "AttributeError" ELSE res.kind)
    /\ UNCHANGED << user_sessions, session_keys, inputs, call, status >>

\* line 259
G_EditSending(ok) ==
    /\ pc = "edit_sending"
    /\ UNCHANGED run_bot
    /\ trace' = Append(trace, Event("edit:sending_text", ok))
    /\ status' = IF ok THEN "sending_text" ELSE status
    /\ Outer(ok, "markdown", loc, "TransportError")
    /\ UNCHANGED << user_sessions, session_keys, inputs, call >>

\* the chat operation of lines 261-274 for a stripped resume_markdown
MarkdownDelivery(resume_markdown) ==
    IF resume_markdown = EmptyStr THEN "send:md_missing"
    ELSE IF SendMarkdownAsFile(resume_markdown) THEN "doc:resume.md"
    ELSE "send:resume_markdown"

\* lines 261-274
G_Markdown(ok) ==
    /\ pc = "markdown"
    /\ UNCHANGED run_bot
    /\ trace' = Append(trace, Event(MarkdownDelivery(loc.resume_markdown), ok))
    /\ Outer(ok, "cover_letter", loc, "TransportError")
    /\ UNCHANGED << user_sessions, session_keys, inputs, call, status >>

\* lines 277-281
G_CoverLetter(ok) ==
    /\ pc = "cover_letter"
    /\ UNCHANGED run_bot
    /\ IF loc.cover_letter # EmptyStr
       THEN /\ trace' = Append(trace, Event("send:cover_letter", ok))
            /\ Outer(ok, "pdf_gate", loc, "TransportError")
       ELSE /\ pc' = "pdf_gate"
            /\ UNCHANGED << trace, loc >>
    /\ UNCHANGED << user_sessions, session_keys, inputs, call, status >>

\* the gate testing for the key instead of a non-empty value
PdfWanted_KeyPresent(full_name) == full_name # << >>

\* line 287: the PDF sub-flow runs only for a truthy full_name
PdfWanted(full_name) == Truthy(full_name)

\* line 287
G_PdfGate ==
    /\ pc = "pdf_gate"
    /\ UNCHANGED run_bot
    /\ pc' = IF PdfWanted(loc.full_name) THEN PdfSteps[1] ELSE "skip_pdf"
    /\ UNCHANGED << user_sessions, session_keys, inputs, call, loc, status,
                    trace >>

\* line 291
G_EditPdf(ok) ==
    /\ pc = "edit_pdf"
    /\ UNCHANGED run_bot
    /\ trace' = Append(trace, Event("edit:generating_pdf", ok))
    /\ status' = IF ok THEN "generating_pdf" ELSE status
    /\ Inner(ok, StepAfter("edit_pdf"), "TransportError")
    /\ UNCHANGED << user_sessions, session_keys, inputs, call >>

\* lines 297-321: the three font files
G_LoadFonts(ok) ==
    /\ pc = "load_fonts"
    /\ UNCHANGED run_bot
    /\ trace' = Append(trace, Event("load_fonts", ok))
    /\ Inner(ok, StepAfter("load_fonts"), "FileNotFoundError")
    /\ UNCHANGED << user_sessions, session_keys, inputs, call, status >>

\* lines 325-332
G_RenderHtml(ok) ==
    /\ pc = "render_html"
    /\ UNCHANGED run_bot
    /\ trace' = Append(trace, Event("render_resume_html", ok))
    /\ Inner(ok, StepAfter("render_html"), "RenderError")
    /\ UNCHANGED << user_sessions, session_keys, inputs, call, status >>

\* What the async conversion _html_to_pdf_playwright ends with: the PDF, an
\* error of the browser library, or an error of class RuntimeError (of which
\* NotImplementedError is a subclass).
ConversionOutcomes ==
    { "ok", "PlaywrightError", "RuntimeError", "NotImplementedError" }

\* resume_renderer.py line 107: what "except RuntimeError" catches
IsRuntimeError(e) == e \in { "RuntimeError", "NotImplementedError" }

\* asyncio.run(coro) on a thread: with a loop running there it raises the
\* RuntimeError "cannot be called from a running event loop" and the
\* conversion does not run; without one the conversion runs and ends as conv
AsyncioRun(loop_running_here, conv) ==
    IF loop_running_here THEN "LoopAlreadyRunning" ELSE conv

\* resume_renderer.py lines 90-111, html_to_pdf_bytes(html): the runs of
\* asyncio.run it makes ("worker": on the executor thread, "direct": on the
\* calling thread) and how it ends ("ok" or the error it raises).
html_to_pdf_bytes(loop_running, conv) ==
    IF loop_running
    THEN \* get_running_loop returns; the worker thread has no loop
         LET worker == AsyncioRun(FALSE, conv)
         IN  IF worker # "ok" /\ IsRuntimeError(worker)
             THEN [ runs |-> << "worker", "direct" >>,
                    kind |-> AsyncioRun(TRUE, conv) ]
             ELSE [ runs |-> << "worker" >>, kind |-> worker ]
    ELSE \* get_running_loop raises RuntimeError
         [ runs |-> << "direct" >>, kind |-> AsyncioRun(FALSE, conv) ]

\* lines 336-343: html_to_pdf_bytes called with or without a running loop
G_HtmlToPdf(loop_running, conv) ==
    /\ pc = "html_to_pdf"
    /\ UNCHANGED run_bot
    /\ LET res == html_to_pdf_bytes(loop_running, conv)
           ok  == res.kind = "ok"
       IN  /\ trace' = Append(trace, Event("html_to_pdf_bytes", ok))
           /\ pc' = IF ok THEN StepAfter("html_to_pdf") ELSE "pdf_failed"
           /\ loc' = [loc EXCEPT
                         !.exc = IF ok THEN @ ELSE res.kind,
                         !.pdf_call = << [ loop_running |-> loop_running,
                                           conv |-> conv,
                                           runs |-> res.runs,
                                           kind |-> res.kind ] >>]
    /\ UNCHANGED << user_sessions, session_keys, inputs, call, status >>

\* the letters and the digits among the characters of the names
Letters == { "J", "D" }
Digits  == { "7" }

\* str.isalnum() for one character
IsAlnum(c) == c \in Letters \cup Digits

\* a filter that drops the underscore too
KeepInName_NoUnderscore(c) == IsAlnum(c) \/ c = " "

\* line 347: c.isalnum() or c in " _"
KeepInName(c) == IsAlnum(c) \/ c \in { " ", "_" }

RECURSIVE JoinKept(_)
\* "".join(c for c in name if keep(c))
JoinKept(name) ==
    IF name = << >> THEN EmptyStr
    ELSE IF KeepInName(Head(name).c)
         THEN Concat(<< Head(name) >>, JoinKept(Tail(name)))
         ELSE JoinKept(Tail(name))

\* line 347
SafeName(full_name) == rstrip(JoinKept(full_name))

\* line 348: f"Resume_{safe_name}.pdf"
PdfFilename(full_name) ==
    Concat(Concat(Lit(<< "Resume", "_" >>), SafeName(full_name)),
           Lit(<< ".", "pdf" >>))

\* lines 347-353: the file name, then the document
G_SendPdf(ok) ==
    /\ pc = "send_pdf"
    /\ UNCHANGED run_bot
    /\ trace' = Append(trace, Event("doc:pdf", ok))
    /\ pc' = IF ok THEN StepAfter("send_pdf") ELSE "pdf_failed"
    /\ loc' = [loc EXCEPT
                  !.pdf_filename = PdfFilename(loc.full_name[1]),
                  !.exc = IF ok THEN @ ELSE "TransportError"]
    /\ UNCHANGED << user_sessions, session_keys, inputs, call, status >>

\* line 356
G_DeleteStatus(ok) ==
    /\ pc = "delete_status"
    /\ UNCHANGED run_bot
    /\ trace' = Append(trace, Event("delete:status", ok))
    /\ status' = IF ok THEN "deleted" ELSE status
    /\ Inner(ok, StepAfter("delete_status"), "TransportError")
    /\ UNCHANGED << user_sessions, session_keys, inputs, call >>

\* lines 358-362: the inner except clause sends the soft notice; a failure
\* of that send is raised into the outer try
G_PdfFailed(ok) ==
    /\ pc = "pdf_failed"
    /\ UNCHANGED run_bot
    /\ trace' = Append(trace, Event("send:pdf_failed", ok))
    /\ Outer(ok, "finally", loc, "TransportError")
    /\ UNCHANGED << user_sessions, session_keys, inputs, call, status >>

\* lines 363-367
G_SkipPdf(ok) ==
    /\ pc = "skip_pdf"
    /\ UNCHANGED run_bot
    /\ trace' = Append(trace, Event("delete:status", ok))
    /\ status' = IF ok THEN "deleted" ELSE status
    /\ Outer(ok, "finally", loc, "TransportError")
    /\ UNCHANGED << user_sessions, session_keys, inputs, call >>

\* lines 371-375: the outer except clause edits the status message; a
\* failure of the edit leaves the handler after the finally clause
G_Except(ok) ==
    /\ pc = "except"
    /\ UNCHANGED run_bot
    /\ trace' = Append(trace, Event("edit:error", ok))
    /\ status' = IF ok THEN "error" ELSE status
    /\ loc' = [loc EXCEPT !.reraise = ~ok]
    /\ pc' = "finally"
    /\ UNCHANGED << user_sessions, session_keys, inputs, call >>

\* lines 377-380
G_Finally ==
    /\ pc = "finally"
    /\ UNCHANGED run_bot
    /\ user_sessions' = [user_sessions EXCEPT ![call.user] = ClearTexts(@)]
    /\ Leave(IF loc.reraise THEN "raised" ELSE "returned")
    /\ UNCHANGED << session_keys, inputs, status, trace >>

\* ------------------------------------------- handlers on telebot's threads
\* telebot.TeleBot(TELEGRAM_TOKEN) (line 36) is threaded by default: a
\* handler runs on a worker thread, and the next update of the same user can
\* be handled while generate_resume is still running.

\* the record of an invocation that ran during a generation request
Overlap(h, text, ok) == [ handler |-> h, text |-> text, ok |-> ok ]

\* collect_text for the user of the running generation request
CollectTextDuring(msg_text, ok) ==
    /\ pc # "idle"
    /\ Polling
    /\ HandlerFor(msg_text) = "collect_text"
    /\ Len(call.during) < MaxOverlap
    /\ LET text == strip(msg_text)
           u    == call.user
       IN  IF text = EmptyStr
           THEN /\ call' = [call EXCEPT !.during =
                               Append(@, Overlap("collect_text", text, TRUE))]
                /\ UNCHANGED user_sessions
           ELSE /\ user_sessions' =
                       [user_sessions EXCEPT ![u] = AppendText(@, text)]
                /\ call' = [call EXCEPT !.during =
                               Append(@, Overlap("collect_text", text, ok))]
    /\ UNCHANGED << session_keys, inputs, pc, loc, status, trace, run_bot >>

\* clear_input for the user of the running generation request
ClearInputDuring(text, ok) ==
    /\ pc # "idle"
    /\ Polling
    /\ HandlerFor(text) = "clear_input"
    /\ Len(call.during) < MaxOverlap
    /\ user_sessions' = [user_sessions EXCEPT ![call.user] = ClearTexts(@)]
    /\ call' = [call EXCEPT !.during =
                    Append(@, Overlap("clear_input", text, ok))]
    /\ UNCHANGED << session_keys, inputs, pc, loc, status, trace, run_bot >>

\* ------------------------------------------------------------------ run_bot

\* What bot.infinity_polling can raise: errors (a network drop, a transport
\* error), and the exits that are not of class Exception.
PollingErrors ==
    { "ConnectionError", "ApiException", "KeyboardInterrupt", "SystemExit" }

\* an except clause for network drops only
CatchesException_NetworkOnly(e) == e = "ConnectionError"

\* line 393: "except Exception" catches every error and no exit
CatchesException(e) == e \notin { "KeyboardInterrupt", "SystemExit" }

\* time.sleep(3)
ReconnectDelay == 3

\* one more polling cycle started
OneMorePoll(n) == IF n < MaxPolls THEN n + 1 ELSE n

HandlerVars ==
    << user_sessions, session_keys, inputs, call, pc, loc, status, trace >>

\* lines 392-394: infinity_polling raises e; the except clause logs it, or e
\* leaves run_bot
PollingRaises(e) ==
    /\ run_bot.pc = "polling"
    /\ run_bot' = IF CatchesException(e)
                  THEN [run_bot EXCEPT !.pc = "sleeping", !.exc = e, !.slept = 0]
                  ELSE [run_bot EXCEPT !.pc = "terminated", !.exc = e]
    /\ UNCHANGED HandlerVars

\* lines 389-392: infinity_polling returns; "while True" calls it again
PollingReturns ==
    /\ run_bot.pc = "polling"
    /\ run_bot' = [run_bot EXCEPT !.exc = "none", !.slept = 0,
                                  !.polls = OneMorePoll(@)]
    /\ UNCHANGED HandlerVars

\* lines 395, 389-392: the sleep, then "while True" calls infinity_polling
SleepAndRetry ==
    /\ run_bot.pc = "sleeping"
    /\ run_bot' = [run_bot EXCEPT !.pc = "polling",
                                  !.slept = @ + ReconnectDelay,
                                  !.polls = OneMorePoll(@)]
    /\ UNCHANGED HandlerVars

\* ------------------------------------------------------------------ inputs

\* message texts that are not a caption or a command: empty, white space
\* only, with white space to trim at either end, with inner white space
InputTexts ==
    { EmptyStr,
      Lit(<< " " >>),
      Lit(<< " ", "a" >>),
      Lit(<< "b", "\n" >>),
      Lit(<< "a", " ", "b" >>) }

\* one input text, for the runs that explore the deliveries
OneInputText == { Lit(<< " ", "a" >>) }

\* raw model outputs: a JSON object inside other text, no braces at all, a
\* closing brace before the opening one, braces around text that is no JSON
RawTexts ==
    { << "n", "{", "v", "}", "n" >>,
      << "n" >>,
      << "}", "{" >>,
      << "{", "n", "}" >> }

\* the longest resume_markdown that still goes out as one message
MaxInlineLen ==
    TELEGRAM_MESSAGE_LIMIT
        - StrLen(MarkdownHeader) - StrLen(FenceOpen) - StrLen(FenceClose)

\* values of payload["resume_markdown"]: the key absent (or null), white
\* space only, short, at the limit, one over it, with two backquotes in a
\* row, with three, and long with three
MarkdownValues ==
    { << >>,
      << Lit(<< " " >>) >>,
      << << Run(" ", 1), Run("x", 5) >> >>,
      << << Run("x", MaxInlineLen) >> >>,
      << << Run("x", MaxInlineLen + 1) >> >>,
      << << Run("x", 1), Run(BACKQUOTE, 2), Run("x", 1) >> >>,
      << << Run("x", 1), Run(BACKQUOTE, 3), Run("x", 1) >> >>,
      << << Run(BACKQUOTE, 4), Run("x", MaxInlineLen) >> >> }

\* values of payload["cover_letter"]
CoverValues == { << >>, << Lit(<< "\n" >>) >>, << Lit(<< "c", " " >>) >> }

\* values of resume_data.get("full_name"): absent, empty, a name, a name
\* with punctuation, an underscore, a digit and white space at both ends, a
\* name whose spaces meet when the character between them goes, and a name
\* of which nothing is kept
NameValues ==
    { << >>,
      << EmptyStr >>,
      << Lit(<< "J", " ", "D" >>) >>,
      << Lit(<< " ", "J", ".", "-", "D", "_", "7", " ", "\t" >>) >>,
      << Lit(<< "J", " ", ".", " ", "D" >>) >>,
      << Lit(<< ".", " " >>) >> }

Payload(md, cover, name, typed) ==
    [ resume_markdown |-> md, cover_letter |-> cover, full_name |-> name,
      well_typed |-> typed ]

\* the decoded payloads: every combination of the values above, and one
\* whose fields have the wrong JSON type
Payloads ==
    { Payload(md, cover, name, TRUE) :
          md \in MarkdownValues, cover \in CoverValues, name \in NameValues }
    \cup { Payload(<< >>, << >>, << >>, FALSE) }

\* two payloads, for the runs that explore the sessions
TwoPayloads ==
    { Payload(<< Lit(<< "x" >>) >>, << Lit(<< "c" >>) >>, name, TRUE) :
          name \in { << >>, << Lit(<< "J" >>) >> } }

\* ------------------------------------------------------------------- specs

\* the texts of the incoming messages: the given ones, the start command
\* and the two captions
Messages(texts) == texts \cup {StartCommand, GenerateCaption, ClearCaption}

NextWith(texts, raws, payloads) ==
    \/ \E u \in Users, t \in Messages(texts), ok \in BOOLEAN : Start(u, t, ok)
    \/ \E u \in Users, t \in Messages(texts), ok \in BOOLEAN :
          CollectText(u, t, ok)
    \/ \E u \in Users, t \in Messages(texts), ok \in BOOLEAN :
          ClearInput(u, t, ok)
    \/ \E u \in Users, t \in Messages(texts), ok \in BOOLEAN : G_Start(u, t, ok)
    \/ G_BuildPrompt
    \/ \E ok \in BOOLEAN, raw \in raws : G_CallMistral(ok, raw)
    \/ \E payload \in payloads : G_ExtractJson(payload)
    \/ \E ok \in BOOLEAN : G_EditSending(ok)
    \/ \E ok \in BOOLEAN : G_Markdown(ok)
    \/ \E ok \in BOOLEAN : G_CoverLetter(ok)
    \/ G_PdfGate
    \/ \E ok \in BOOLEAN : G_EditPdf(ok)
    \/ \E ok \in BOOLEAN : G_LoadFonts(ok)
    \/ \E ok \in BOOLEAN : G_RenderHtml(ok)
    \/ \* the handlers run on telebot's threads, where no event loop runs
       \E conv \in ConversionOutcomes : G_HtmlToPdf(FALSE, conv)
    \/ \E ok \in BOOLEAN : G_SendPdf(ok)
    \/ \E ok \in BOOLEAN : G_DeleteStatus(ok)
    \/ \E ok \in BOOLEAN : G_PdfFailed(ok)
    \/ \E ok \in BOOLEAN : G_SkipPdf(ok)
    \/ \E ok \in BOOLEAN : G_Except(ok)
    \/ G_Finally

\* the handlers with every payload and one input text
Next == NextWith(OneInputText, RawTexts, Payloads)

Spec == Init /\ [][Next]_vars

\* the handlers with every input text and two payloads
NextSessions == NextWith(InputTexts, RawTexts, TwoPayloads)

SpecSessions == Init /\ [][NextSessions]_vars

\* message texts close to the command and the captions: the command with an
\* argument, another command, a caption with white space around it
DispatchTexts ==
    { Lit(<< "/", "start", " ", "x" >>),
      Lit(<< "/", "help" >>),
      Concat(GenerateCaption, Lit(<< " " >>)),
      Concat(Lit(<< "\n" >>), ClearCaption) }

\* the handlers with the texts that tell the filters apart
NextDispatch ==
    NextWith(DispatchTexts, { << "{", "v", "}" >> }, TwoPayloads)

SpecDispatch == Init /\ [][NextDispatch]_vars

\* the handlers, and the polling cycle failing, returning and restarting
NextSupervisor ==
    \/ NextWith(OneInputText, { << "{", "v", "}" >> }, TwoPayloads)
    \/ \E e \in PollingErrors : PollingRaises(e)
    \/ PollingReturns
    \/ SleepAndRetry

\* time.sleep returns and the loop goes on: the sleep is not postponed for ever
SpecSupervisor == Init /\ [][NextSupervisor]_vars /\ WF_vars(SleepAndRetry)

\* the payloads with which a request reaches the PDF conversion
PdfPayloads == { p \in Payloads : p.well_typed /\ PdfWanted(p.full_name) }

\* the calls a request with the given payload has made when it reaches the
\* PDF conversion
TraceBeforePdf(payload) ==
    << Event("send:status", TRUE), Event("call_mistral", TRUE),
       Event("extract_json", TRUE), Event("edit:sending_text", TRUE),
       Event(MarkdownDelivery(strip(OrEmpty(payload.resume_markdown))), TRUE) >>
    \o (IF strip(OrEmpty(payload.cover_letter)) # EmptyStr
        THEN << Event("send:cover_letter", TRUE) >> ELSE << >>)
    \o << Event("edit:generating_pdf", TRUE), Event("load_fonts", TRUE),
          Event("render_resume_html", TRUE) >>

\* generate_resume at line 336, about to call html_to_pdf_bytes
InitPdf ==
    /\ user_sessions = [u \in Users |-> IF u = "u1" THEN << Lit(<< "a" >>) >>
                                        ELSE << >>]
    /\ session_keys = {"u1"}
    /\ inputs = [u \in Users |-> << >>]
    /\ call = [NewCall("generate_resume", "u1", GenerateCaption)
                  EXCEPT !.had_texts = TRUE,
                         !.snapshot = << Lit(<< "a" >>) >>]
    /\ pc = "html_to_pdf"
    /\ \E payload \in PdfPayloads :
          /\ loc = [NoLocals EXCEPT
                       !.full_text = Lit(<< "a" >>),
                       !.prompt = BuildPrompt(Lit(<< "a" >>)),
                       !.raw = << "{", "v", "}" >>,
                       !.decoded = << "{", "v", "}" >>,
                       !.resume_markdown =
                           strip(OrEmpty(payload.resume_markdown)),
                       !.cover_letter = strip(OrEmpty(payload.cover_letter)),
                       !.full_name = payload.full_name,
                       !.parsed = TRUE]
          /\ trace = TraceBeforePdf(payload)
    /\ status = "generating_pdf"
    /\ run_bot = Supervising

\* html_to_pdf_bytes called with and without a running event loop, and
\* what generate_resume does with the result
NextPdf ==
    \/ \E loop_running \in BOOLEAN, conv \in ConversionOutcomes :
          G_HtmlToPdf(loop_running, conv)
    \/ \E ok \in BOOLEAN : G_SendPdf(ok)
    \/ \E ok \in BOOLEAN : G_DeleteStatus(ok)
    \/ \E ok \in BOOLEAN : G_PdfFailed(ok)
    \/ \E ok \in BOOLEAN : G_Except(ok)
    \/ G_Finally

\* html_to_pdf_bytes for every caller context and conversion outcome
SpecPdf == InitPdf /\ [][NextPdf]_vars

\* the handlers one at a time, and collect_text and clear_input running
\* while a generation request of the same user is under way
NextInterleaved ==
    \/ NextWith(OneInputText, { << "{", "v", "}" >> }, TwoPayloads)
    \/ \E t \in Messages(OneInputText), ok \in BOOLEAN : CollectTextDuring(t, ok)
    \/ \E t \in Messages(OneInputText), ok \in BOOLEAN : ClearInputDuring(t, ok)

SpecInterleaved == Init /\ [][NextInterleaved]_vars

\* every raw model output of at most n characters
RawsUpTo(n) == UNION { [1..k -> JsonChars] : k \in 0..n }

\* generate_resume at line 246, the provider having returned any raw text
InitExtract ==
    /\ user_sessions = [u \in Users |-> IF u = "u1" THEN << Lit(<< "a" >>) >>
                                        ELSE << >>]
    /\ session_keys = {"u1"}
    /\ inputs = [u \in Users |-> << >>]
    /\ call = [NewCall("generate_resume", "u1", GenerateCaption)
                  EXCEPT !.had_texts = TRUE,
                         !.snapshot = << Lit(<< "a" >>) >>]
    /\ pc = "extract_json"
    /\ \E raw \in RawsUpTo(MaxRawLen) :
          loc = [NoLocals EXCEPT !.full_text = Lit(<< "a" >>),
                                 !.prompt = BuildPrompt(Lit(<< "a" >>)),
                                 !.raw = raw]
    /\ status = "analyzing"
    /\ trace = << Event("send:status", TRUE), Event("call_mistral", TRUE) >>
    /\ run_bot = Supervising

NextExtract == \E payload \in TwoPayloads : G_ExtractJson(payload)

\* extract_json on every bounded raw text
SpecExtract == InitExtract /\ [][NextExtract]_vars

\* ------------------------------------------------------------------ claims

InGenerate == call.handler = "generate_resume"

\* the current handler invocation made the call `op`
Happened(op) == \E i \in 1..Len(trace) : trace[i].op = op

\* ... and the call returned
Succeeded(op) == \E i \in 1..Len(trace) : trace[i].op = op /\ trace[i].ok

\* ... and the call raised
Failed(op) == \E i \in 1..Len(trace) : trace[i].op = op /\ ~trace[i].ok

\* the chat operations that carry a deliverable
DeliveryOps ==
    { "doc:resume.md", "send:resume_markdown", "send:cover_letter", "doc:pdf" }

\* the steps of the rendering pipeline
PipelineOps == { "load_fonts", "render_resume_html", "html_to_pdf_bytes" }

\* C1: once an invocation of generate_resume that found a non-empty session
\* has ended, whatever its outcome, the fragment list of its user is empty.
C1_ClearedAfterGenerate ==
    (InGenerate /\ call.had_texts /\ call.state # "running")
        => user_sessions[call.user] = << >>

\* C2: when the provider call raises or extract_json fails, the request
\* sends no Markdown resume, no cover letter and no PDF, runs no step of the
\* rendering pipeline, and the handler's next and last chat operation is the
\* edit of the status message to the generic failure notice (which the
\* status message shows when the edit goes through).
C2_FailureSendsNothing ==
    (InGenerate /\ (Failed("call_mistral") \/ Failed("extract_json")))
        => /\ \A op \in DeliveryOps \cup PipelineOps : ~Happened(op)
           /\ pc # "except"
                 => /\ trace[Len(trace)].op = "edit:error"
                    /\ trace[Len(trace) - 1].op \in {"call_mistral", "extract_json"}
                    /\ trace[Len(trace)].ok => status = "error"

C2_Witness ==
    /\ InGenerate /\ call.state = "returned"
    /\ Failed("extract_json")
    /\ status = "error"

\* C3: when font loading, HTML rendering or PDF conversion fails in a
\* request whose Markdown resume and cover letter are non-empty, both were
\* sent before the failure, the soft PDF-failure notice is sent, and the
\* status message never shows the generic failure notice.
C3_PdfFailureIsSoft ==
    (/\ InGenerate
     /\ \E op \in PipelineOps : Failed(op)
     /\ loc.resume_markdown # EmptyStr /\ loc.cover_letter # EmptyStr)
        => /\ Succeeded("doc:resume.md") \/ Succeeded("send:resume_markdown")
           /\ Succeeded("send:cover_letter")
           /\ pc # "pdf_failed" => Happened("send:pdf_failed")
           /\ status # "error"

\* C4: the generate trigger for a user without fragments makes one chat
\* call, the no-data warning, and ends; the provider is not called, no
\* status message is created, and no fragment list changes (the lookup of
\* line 225 may create the user's empty entry).
C4_NoDataWarningOnly ==
    [][ (/\ pc = "idle"
         /\ call'.handler = "generate_resume"
         /\ user_sessions[call'.user] = << >>)
            => /\ Len(trace') = 1 /\ trace'[1].op = "send:no_data"
               /\ pc' = "idle" /\ call'.state # "running"
               /\ user_sessions' = user_sessions
               /\ status' = status /\ loc' = loc
      ]_vars

C4_Witness ==
    /\ InGenerate /\ ~call.had_texts /\ pc = "idle"
    /\ trace = << Event("send:no_data", TRUE) >>
    /\ status = "deleted"

\* the texts of msgs, trimmed, without the empty ones, in the same order
RECURSIVE TrimmedNonEmpty(_)
TrimmedNonEmpty(msgs) ==
    IF msgs = << >> THEN << >>
    ELSE LET t == rstrip(lstrip(Head(msgs)))
         IN  (IF t = << >> THEN << >> ELSE << t >>) \o TrimmedNonEmpty(Tail(msgs))

\* the fragments of frags with a blank line (two newlines) between them
RECURSIVE WithBlankLines(_)
WithBlankLines(frags) ==
    IF frags = << >> THEN << >>
    ELSE IF Len(frags) = 1 THEN frags[1]
    ELSE frags[1] \o << Run("\n", 2) >> \o WithBlankLines(Tail(frags))

\* C5: the user text of the prompt handed to the provider is the trimmed,
\* non-empty texts of the input messages the user sent since the last clear
\* or generation, in the order sent, with a blank line between them.
C5_PromptIsInputsInOrder ==
    pc = "call_mistral"
        => UserTextOf(loc.prompt)
               = WithBlankLines(TrimmedNonEmpty(inputs[call.user]))

C5_Witness ==
    /\ pc = "call_mistral"
    /\ Len(inputs[call.user]) = 2
    /\ Len(user_sessions[call.user]) = 2
    /\ user_sessions[call.user][1] # user_sessions[call.user][2]

\* a text that is empty or white space only
IsBlank(text) == \A i \in 1..Len(text) : text[i].c \in {" ", "\n", "\t"}

\* C6: an input message whose text is empty or white space only changes no
\* session and makes no chat call.
C6_BlankInputIgnored ==
    [][ (/\ pc = "idle"
         /\ call'.handler = "collect_text"
         /\ IsBlank(call'.text))
            => /\ user_sessions' = user_sessions
               /\ trace' = << >>
               /\ call'.state = "returned"
      ]_vars

C6_Witness ==
    /\ call.handler = "collect_text"
    /\ call.text = Lit(<< " " >>)
    /\ trace = << >>
    /\ \E u \in Users : user_sessions[u] # << >>

\* the position in the trace of the status edit that opens the deliveries,
\* 0 when the request has not made it
SendingEdit ==
    IF Succeeded("edit:sending_text")
    THEN CHOOSE i \in 1..Len(trace) : trace[i].op = "edit:sending_text"
    ELSE 0

\* the Markdown step (lines 261-274) has run
MarkdownStepDone == SendingEdit > 0 /\ Len(trace) > SendingEdit

\* the chat call the Markdown step made
MarkdownStepOp == trace[SendingEdit + 1].op

\* the steps before the full_name test all returned
TextsDelivered ==
    /\ loc.resume_markdown # EmptyStr
          => Succeeded("doc:resume.md") \/ Succeeded("send:resume_markdown")
    /\ loc.cover_letter # EmptyStr => Succeeded("send:cover_letter")

\* C7: with full_name absent or empty in the parsed payload, no step of the
\* rendering pipeline runs and no PDF is sent; when the handler reaches the
\* full_name test, a non-empty Markdown resume and a non-empty cover letter
\* have been delivered.
C7_NoNameSkipsPdfOnly ==
    (InGenerate /\ loc.parsed /\ ~Truthy(loc.full_name))
        => /\ \A op \in PipelineOps \cup {"doc:pdf", "edit:generating_pdf"} :
                 ~Happened(op)
           /\ pc # "edit_pdf"
           /\ (pc = "skip_pdf" \/ Happened("delete:status")) => TextsDelivered

C7_Witness ==
    /\ InGenerate /\ pc = "finally"
    /\ loc.parsed /\ loc.full_name = << EmptyStr >>
    /\ Succeeded("send:resume_markdown")
    /\ Succeeded("send:cover_letter")
    /\ Succeeded("delete:status")

\* C8: a non-empty Markdown resume holding three backquotes in a row goes
\* out as the attachment resume.md, whatever its length, and never as an
\* inline message.
C8_BackquotesGoAsFile ==
    (/\ InGenerate /\ loc.parsed
     /\ loc.resume_markdown # EmptyStr
     /\ HasTripleBackquote(loc.resume_markdown))
        => /\ ~Happened("send:resume_markdown")
           /\ MarkdownStepDone => MarkdownStepOp = "doc:resume.md"

C8_Witness ==
    /\ InGenerate /\ loc.parsed
    /\ HasTripleBackquote(loc.resume_markdown)
    /\ StrLen(loc.resume_markdown) < 10
    /\ Succeeded("doc:resume.md")

\* the trace holds exactly one event with an op of ops
ExactlyOne(ops) ==
    Cardinality({ i \in 1..Len(trace) : trace[i].op \in ops }) = 1

\* C9: a non-empty Markdown resume without three backquotes in a row goes
\* out as resume.md when the header (28 characters), the opening fence (12),
\* the body and the closing fence (4) together exceed 4000 characters, and
\* as one inline message otherwise; one of the two, never both.
C9_LengthDecidesDelivery ==
    (/\ InGenerate /\ loc.parsed
     /\ loc.resume_markdown # EmptyStr
     /\ ~HasTripleBackquote(loc.resume_markdown)
     /\ MarkdownStepDone)
        => /\ MarkdownStepOp =
                 IF 28 + 12 + StrLen(loc.resume_markdown) + 4 > 4000
                 THEN "doc:resume.md" ELSE "send:resume_markdown"
           /\ ExactlyOne({"doc:resume.md", "send:resume_markdown"})

C9_Witness ==
    /\ InGenerate /\ loc.parsed
    /\ ~HasTripleBackquote(loc.resume_markdown)
    /\ StrLen(loc.resume_markdown) = 3956
    /\ Succeeded("send:resume_markdown")

\* the positions of the character c in text
Positions(text, c) == { i \in 1..Len(text) : text[i] = c }

Min(S) == CHOOSE x \in S : \A y \in S : x <= y
Max(S) == CHOOSE x \in S : \A y \in S : x >= y

\* no "{", or no "}", or the last "}" not after the first "{"
NoBracePair(text) ==
    \/ Positions(text, "{") = {}
    \/ Positions(text, "}") = {}
    \/ Max(Positions(text, "}")) <= Min(Positions(text, "{"))

\* the text from its first "{" to its last "}", both included
FirstToLast(text) ==
    SubSeq(text, Min(Positions(text, "{")), Max(Positions(text, "}")))

\* C10: extract_json fails with the missing-data error exactly when the
\* text has no "{", or no "}", or its last "}" is not after its first "{";
\* otherwise it decodes the text from the first "{" to the last "}", and
\* returns the object when that text is valid JSON and fails with the
\* malformed-input error when it is not.
C10_ExtractJson ==
    (InGenerate /\ Happened("extract_json"))
        => /\ loc.exc = "ValueError" <=> NoBracePair(loc.raw)
           /\ ~NoBracePair(loc.raw)
                 => LET got == json_loads(FirstToLast(loc.raw))
                    IN  IF got.kind = "ok"
                        THEN /\ loc.exc = "none" /\ loc.parsed
                             /\ loc.decoded = got.value
                        ELSE /\ loc.exc = "JSONDecodeError" /\ ~loc.parsed

C10_Witness ==
    /\ InGenerate /\ Happened("extract_json")
    /\ loc.parsed
    /\ loc.raw = << "n", "{", " ", "v", "}" >>
    /\ loc.decoded = << "{", "v", "}" >>

\* the text is the start command: /start alone or followed by arguments
IsTheStartCommand(text) ==
    \/ text = Lit(<< "/", "start" >>)
    \/ /\ Len(text) > 2
       /\ SubSeq(text, 1, 3) = Lit(<< "/", "start", " " >>)

\* the handler the claim names for a message text
NamedHandler(text) ==
    IF IsTheStartCommand(text) THEN "start"
    ELSE IF text = Lit(<< "[v]", " ", "generate" >>) THEN "generate_resume"
    ELSE IF text = Lit(<< "[x]", " ", "clear" >>) THEN "clear_input"
    ELSE "collect_text"

\* C11: every incoming text message starts one handler invocation: start for
\* the start command, generate_resume for a text equal to the generate
\* caption, clear_input for a text equal to the clear caption, collect_text
\* for any other text; and a message whose text is a caption or the start
\* command adds no fragment to any session.
C11_OneHandlerPerMessage ==
    [][ pc = "idle"
            => /\ call'.handler = NamedHandler(call'.text)
               /\ call'.handler # "collect_text"
                     => \A u \in Users :
                            Len(user_sessions'[u]) <= Len(user_sessions[u])
      ]_vars

C11_Witness ==
    /\ call.handler = "collect_text"
    /\ call.text = Lit(<< "[v]", " ", "generate", " " >>)
    /\ user_sessions[call.user] = << Lit(<< "[v]", " ", "generate" >>) >>

\* C12: run_bot ends only on an exit that is not an error: an error raised by
\* the polling cycle, of any class, puts run_bot into its sleep (and never
\* ends it); the sleep is followed, after ReconnectDelay = 3 seconds slept
\* once, by a new polling cycle; and this holds however many cycles have
\* been started before.
C12_SupervisorRetries ==
    /\ [](run_bot.pc = "terminated"
              => run_bot.exc \in { "KeyboardInterrupt", "SystemExit" })
    /\ [][ /\ (run_bot.pc = "polling" /\ run_bot'.pc = "sleeping")
               => run_bot'.exc \in { "ConnectionError", "ApiException" }
           /\ (run_bot.pc = "sleeping" /\ run_bot' # run_bot)
               => /\ run_bot'.pc = "polling"
                  /\ run_bot'.slept = 3
                  /\ run_bot'.polls >= run_bot.polls
                  /\ run_bot.polls < MaxPolls
                        => run_bot'.polls = run_bot.polls + 1
           /\ (run_bot.pc = "polling" /\ run_bot'.pc = "terminated")
               => run_bot'.exc \in { "KeyboardInterrupt", "SystemExit" }
         ]_vars
    /\ \A e \in { "ConnectionError", "ApiException" } :
          (run_bot.pc = "sleeping" /\ run_bot.exc = e)
              ~> (run_bot.pc = "polling" /\ run_bot.slept = 3)

C12_Witness ==
    /\ run_bot.pc = "polling"
    /\ run_bot.exc = "ApiException"
    /\ run_bot.slept = 3
    /\ run_bot.polls = MaxPolls
    /\ call.state = "raised"

\* the place of a call among the five steps of a request, 0 for other calls
StepRank(op) ==
    CASE op = "call_mistral" -> 1
      [] op = "extract_json" -> 2
      [] op \in {"doc:resume.md", "send:resume_markdown", "send:md_missing"} -> 3
      [] op = "send:cover_letter" -> 4
      [] op = "doc:pdf" -> 5
      [] OTHER -> 0

\* C13: in one generation request the provider call, the extraction, the
\* Markdown delivery, the cover-letter delivery and the PDF delivery happen
\* in this order, each at most once, and a later one happens only after the
\* earlier ones have returned.
C13_StepsInOrderOnce ==
    InGenerate
        => \A i, j \in 1..Len(trace) :
              (i < j /\ StepRank(trace[i].op) > 0 /\ StepRank(trace[j].op) > 0)
                  => /\ StepRank(trace[i].op) < StepRank(trace[j].op)
                     /\ trace[i].ok

C13_Witness ==
    /\ InGenerate /\ Len(trace) = 11
    /\ trace[2] = Event("call_mistral", TRUE)
    /\ trace[3] = Event("extract_json", TRUE)
    /\ trace[5] = Event("doc:resume.md", TRUE)
    /\ trace[6] = Event("send:cover_letter", TRUE)
    /\ trace[11] = Event("doc:pdf", TRUE)

\* the record of the call of html_to_pdf_bytes made by the request
PdfCall == loc.pdf_call[1]

\* C14: html_to_pdf_bytes runs the conversion on the calling thread only
\* when no event loop runs in the caller; with a loop running it runs the
\* conversion on the worker thread only, and an error of the conversion,
\* whatever its class, is the error the caller gets.
C14_DualPath ==
    (InGenerate /\ loc.pdf_call # << >>)
        => /\ (\E i \in 1..Len(PdfCall.runs) : PdfCall.runs[i] = "direct")
                 => ~PdfCall.loop_running
           /\ PdfCall.loop_running
                 => /\ PdfCall.runs = << "worker" >>
                    /\ PdfCall.kind = PdfCall.conv

\* the positions in the trace of the calls with an op of ops
TracePositions(ops) == { i \in 1..Len(trace) : trace[i].op \in ops }

\* C15: a request in which the PDF was delivered goes on to delete the
\* status message, and so does a request that skips the PDF for want of a
\* full_name; the delete call comes after every deliverable of the request
\* (no deliverable is sent after it), and once it has returned the status
\* message is gone.
C15_StatusDeletedLast ==
    InGenerate
        => /\ (Succeeded("doc:pdf") /\ pc # "delete_status")
                 => Happened("delete:status")
           /\ (/\ pc = "finally" /\ loc.parsed /\ loc.exc = "none"
               /\ ~Truthy(loc.full_name))
                 => Succeeded("delete:status")
           /\ \A i \in TracePositions({"delete:status"}) :
                 /\ \A j \in TracePositions(DeliveryOps) : j < i /\ trace[j].ok
                 /\ trace[i].ok => status = "deleted"
                 /\ loc.parsed /\ Truthy(loc.full_name) => Succeeded("doc:pdf")

C15_Witness ==
    /\ InGenerate /\ pc = "finally"
    /\ status = "deleted"
    /\ trace[Len(trace)] = Event("delete:status", TRUE)
    /\ trace[Len(trace) - 1] = Event("doc:pdf", TRUE)
    /\ Succeeded("send:cover_letter")

RECURSIVE Chars(_)
\* the characters of a string, one by one
Chars(str) ==
    IF str = << >> THEN << >>
    ELSE [i \in 1..Head(str).n |-> Head(str).c] \o Chars(Tail(str))

RECURSIVE WithoutTrailingSpace(_)
WithoutTrailingSpace(cs) ==
    IF cs # << >> /\ cs[Len(cs)] \in {" ", "\t", "\n"}
    THEN WithoutTrailingSpace(SubSeq(cs, 1, Len(cs) - 1))
    ELSE cs

\* C16: the PDF is sent under the name "Resume_", then the characters of
\* full_name that are letters, digits, spaces or underscores, in their
\* order and without the white space at the end, then ".pdf".
C16_PdfFileName ==
    (InGenerate /\ Happened("doc:pdf") /\ pc # "idle")
        => Chars(loc.pdf_filename)
              = << "Resume", "_" >>
                \o WithoutTrailingSpace(
                       SelectSeq(Chars(loc.full_name[1]),
                                 LAMBDA c : c \in {"J", "D", "7", " ", "_"}))
                \o << ".", "pdf" >>

C16_Witness ==
    /\ InGenerate /\ Succeeded("doc:pdf")
    /\ loc.full_name =
           << Lit(<< " ", "J", ".", "-", "D", "_", "7", " ", "\t" >>) >>
    /\ loc.pdf_filename =
           Lit(<< "Resume", "_", " ", "J", "D", "_", "7", ".", "pdf" >>)

\* the pairs << i, j >> such that text[i..j] is a valid JSON object
ObjectsIn(text) ==
    { ij \in (1..Len(text)) \X (1..Len(text)) :
          /\ ij[1] <= ij[2]
          /\ text[ij[1]] = "{" /\ text[ij[2]] = "}"
          /\ json_loads(SubSeq(text, ij[1], ij[2])).kind = "ok" }

\* the valid JSON object of the text that starts first
FirstObject(text) ==
    LET ij == CHOOSE x \in ObjectsIn(text) :
                  \A y \in ObjectsIn(text) : x[1] <= y[1]
    IN  SubSeq(text, ij[1], ij[2])

\* C17: whenever the text holds at least one valid JSON object, whatever
\* follows it, extract_json returns the first one.
C17_FirstObjectReturned ==
    (InGenerate /\ Happened("extract_json") /\ ObjectsIn(loc.raw) # {})
        => /\ loc.exc = "none"
           /\ loc.decoded = json_loads(FirstObject(loc.raw)).value

\* the position of the last clear_input among the invocations that ran
\* during the request, 0 when there was none
LastClearDuring ==
    LET clears == { i \in 1..Len(call.during) :
                       call.during[i].handler = "clear_input" }
    IN  IF clears = {} THEN 0
        ELSE CHOOSE i \in clears : \A j \in clears : j <= i

\* the fragments appended during the request and not cleared since, each
\* with whether it was acknowledged
AddedDuring ==
    SelectSeq(SubSeq(call.during, LastClearDuring + 1, Len(call.during)),
              LAMBDA o : o.handler = "collect_text" /\ o.text # << >>)

\* where the fragments of AddedDuring start in the session
KeptOfSnapshot == IF LastClearDuring = 0 THEN Len(call.snapshot) ELSE 0

\* C18: the clearing at the end of a generation request removes no
\* acknowledged fragment that the prompt of the request did not contain,
\* also when collect_text and clear_input run for the same user during the
\* request.
C18_NoAcknowledgedFragmentLost ==
    [][ (pc = "finally" /\ pc' = "idle")
            => \A k \in 1..Len(AddedDuring) :
                  ~ /\ AddedDuring[k].ok
                    /\ user_sessions[call.user][KeptOfSnapshot + k]
                           = AddedDuring[k].text
                    /\ user_sessions'[call.user] = << >>
      ]_vars

\* C19: a request sends the soft PDF-failure notice only if it has delivered
\* no PDF, whichever call of the PDF sub-flow failed.
C19_SoftNoticeOnlyWithoutPdf ==
    (InGenerate /\ Succeeded("send:pdf_failed")) => ~Succeeded("doc:pdf")

\* C20: the status message of a request shows the generic failure notice
\* only if the request has delivered neither the Markdown resume nor the
\* cover letter nor the PDF, whichever chat call failed.
C20_GenericNoticeOnlyWithoutDelivery ==
    (InGenerate /\ Succeeded("edit:error") /\ status = "error")
        => \A op \in DeliveryOps : ~Succeeded(op)

\* the calls of a request that are not chat-transport operations
LocalOps ==
    { "call_mistral", "extract_json", "load_fonts", "render_resume_html",
      "html_to_pdf_bytes" }

\* C21: once a request that created a status message has ended with every
\* chat-transport operation having returned, the status message is deleted
\* or shows the generic failure notice, whatever else failed.
C21_StatusNeverLeftInProgress ==
    (/\ InGenerate /\ call.state # "running"
     /\ Succeeded("send:status")
     /\ \A i \in 1..Len(trace) : trace[i].op \notin LocalOps => trace[i].ok)
        => status \in { "deleted", "error" }

====
